---- MODULE Spec2Model ----
(***************************************************************************)
(* The libretro bridge of rust-libretro (src/lib.rs): the process-wide     *)
(* instance slot RETRO_INSTANCE, the lazily built SYS_INFO, and the        *)
(* exported entry points that forward host calls to the registered Core.   *)
(*                                                                         *)
(* An Option<T> is a sequence of length at most one: None is <<>> and      *)
(* Some(x) is <<x>>.  A panic ends the process: once panicked is Some the  *)
(* host can make no further call.                                          *)
(***************************************************************************)
EXTENDS Integers, Sequences, FiniteSets, TLC

VARIABLES
    RETRO_INSTANCE,   \* Option<CoreWrapper>, the instance slot
    SYS_INFO,         \* Option<*const SystemInfo>, static of retro_get_system_info
    panicked,         \* Option<message>: the panic that ended the process
    lastCall,         \* the entry point called last, its arguments and its result
    calls,            \* what that call invoked, in order (Core hooks, host callbacks)
    hist              \* how often the one-time steps have run so far

vars == <<RETRO_INSTANCE, SYS_INFO, panicked, lastCall, calls, hist>>

----------------------------------------------------------------------------
(* Bounds of the model *)

\* Core hooks taking &mut self may move the Core's internal state in 0..MaxCoreState
MaxCoreState == 1
\* frame-time deltas the host reports are 1..MaxUsec
MaxUsec == 1
\* the history counters stop counting at MaxCount
MaxCount == 2

----------------------------------------------------------------------------
(* Option and pointers *)

None == <<>>
Some(x) == <<x>>
is_some(o) == o # <<>>
is_none(o) == o = <<>>
unwrap(o) == o[1]

\* the null address
NULL == "null"
is_null(p) == p = NULL

\* the Cores a program may offer to set_core; retro_core! fixes one definition
Cores == {"CoreA", "CoreB"}
RetroCoreDefinition == "CoreA"
\* environment callbacks the host may hand in (non-null function pointers)
EnvCallbacks == {"env1", "env2"}
\* I/O callbacks the host may hand in (non-null function pointers)
IoCallbacks == {"cb1"}
\* the five callback slots of the wrapper, by the setter that fills them
CallbackSetters ==
    [retro_set_audio_sample |->
        [arg |-> "retro_audio_sample_t", field |-> "audio_sample_callback"],
     retro_set_audio_sample_batch |->
        [arg |-> "retro_audio_sample_batch_t", field |-> "audio_sample_batch_callback"],
     retro_set_input_poll |->
        [arg |-> "retro_input_poll_t", field |-> "input_poll_callback"],
     retro_set_input_state |->
        [arg |-> "retro_input_state_t", field |-> "input_state_callback"],
     retro_set_video_refresh |->
        [arg |-> "retro_video_refresh_t", field |-> "video_refresh_callback"]]
\* host memory the pointer arguments may point to
GamePointers == {NULL, "game1"}
DataPointers == {NULL, "buf1"}
Deref(p) == [at |-> p]

----------------------------------------------------------------------------
(* The Core: an opaque user type.  Its identity is fixed, its internal      *)
(* state st may change in any hook that takes &mut self, and what it        *)
(* answers depends on both.                                                 *)

NewCore(id) == [id |-> id, st |-> 0]
CoreAfter(core) == {[core EXCEPT !.st = s] : s \in 0..MaxCoreState}

\* the version string a Core in internal state st reports
Versions == <<"0.1.0", "0.1.1", "0.1.2", "0.1.3">>

get_info(core) ==
    [library_name |-> core.id,
     library_version |-> Versions[core.st + 1],
     valid_extensions |-> "",
     need_fullpath |-> FALSE,
     block_extract |-> FALSE]

\* what a hook with a return value answers: the Core decides, from its state
HandlerReturn(handler, core) ==
    IF handler \in {"on_get_region", "get_serialize_size"} THEN Some(core.st) ELSE None

----------------------------------------------------------------------------
(* The wrapper held by the instance slot, and the contexts built from it *)

CoreWrapper_new(core) ==
    [core |-> core,
     environment_callback |-> None,
     environment_set |-> FALSE,
     can_dupe |-> FALSE,
     supports_bitmasks |-> FALSE,
     audio_sample_callback |-> None,
     audio_sample_batch_callback |-> None,
     input_poll_callback |-> None,
     input_state_callback |-> None,
     video_refresh_callback |-> None,
     frame_delta |-> None]

\* CoreWrapper::on_set_audio_sample and its four siblings: store the argument
on_set_callback(wrapper, field, arg1) == [wrapper EXCEPT ![field] = arg1]

NoContext == [type |-> "none"]
GenericContext_new(env) == [type |-> "GenericContext", environment_callback |-> env]
InitContext_new(env) == [type |-> "InitContext", environment_callback |-> env]
GetAvInfoContext_new(env) == [type |-> "GetAvInfoContext", environment_callback |-> env]
SetEnvironmentContext_new(env) ==
    [type |-> "SetEnvironmentContext", environment_callback |-> env]
OptionsChangedContext_new(env) ==
    [type |-> "OptionsChangedContext", environment_callback |-> env]
LoadGameContext_new(env, services) ==
    [type |-> "LoadGameContext", environment_callback |-> env, services |-> services]
\* a special-load context handed the service interfaces of the wrapper too
LoadGameSpecialContext_new_with_services(env) ==
    [type |-> "LoadGameSpecialContext", environment_callback |-> env,
     services |-> {"camera_interface", "perf_interface", "location_interface",
                   "rumble_interface", "sensor_interface"}]

LoadGameSpecialContext_new(env) ==
    [type |-> "LoadGameSpecialContext", environment_callback |-> env, services |-> {}]
\* a run context that was not handed the negotiated duplicate-frame flag
RunContext_without_can_dupe(wrapper) ==
    [type |-> "RunContext",
     environment_callback |-> wrapper.environment_callback,
     video_refresh_callback |-> wrapper.video_refresh_callback,
     audio_sample_callback |-> wrapper.audio_sample_callback,
     audio_sample_batch_callback |-> wrapper.audio_sample_batch_callback,
     input_poll_callback |-> wrapper.input_poll_callback,
     input_state_callback |-> wrapper.input_state_callback,
     can_dupe |-> FALSE,
     supports_bitmasks |-> wrapper.supports_bitmasks]

RunContext(wrapper) ==
    [type |-> "RunContext",
     environment_callback |-> wrapper.environment_callback,
     video_refresh_callback |-> wrapper.video_refresh_callback,
     audio_sample_callback |-> wrapper.audio_sample_callback,
     audio_sample_batch_callback |-> wrapper.audio_sample_batch_callback,
     input_poll_callback |-> wrapper.input_poll_callback,
     input_state_callback |-> wrapper.input_state_callback,
     can_dupe |-> wrapper.can_dupe,
     supports_bitmasks |-> wrapper.supports_bitmasks]
AudioContext(wrapper) ==
    [type |-> "AudioContext",
     environment_callback |-> wrapper.environment_callback,
     audio_sample_callback |-> wrapper.audio_sample_callback,
     audio_sample_batch_callback |-> wrapper.audio_sample_batch_callback]

\* one invocation made by an entry point: a Core hook or a host callback
Ev(hook, ctx, arg, ret) == [hook |-> hook, ctx |-> ctx, arg |-> arg, ret |-> ret]

Inc(n) == IF n < MaxCount THEN n + 1 ELSE n

\* the history after RETRO_INSTANCE.replace(CoreWrapper::new(core)) has run
Registered(h, id) ==
    [h EXCEPT !.registered = Inc(@), !.first = IF h.registered = 0 THEN id ELSE @]

----------------------------------------------------------------------------
(* Panic messages *)

NotInitializedMsg == ": Core has not been initialized yet!"
\* a message copied from retro_init without changing the name
NotInitialized_copied(name) == <<"retro_init", NotInitializedMsg>>
NotInitialized(name) == <<name, NotInitializedMsg>>
AlreadyRegisteredMsg ==
    "Attempted to set a core after the system was already initialized.\nAlready registered core: "
NullPointer(type) == <<"Expected ", type, " got NULL pointer instead!">>
NoCoreInstance == <<"No core instance found!">>

----------------------------------------------------------------------------
(* How an entry point ends *)

Return(name, arg, ret, evs, inst) ==
    /\ lastCall' = [name |-> name, arg |-> arg, ret |-> ret]
    /\ calls' = evs
    /\ RETRO_INSTANCE' = inst
    /\ panicked' = None

PanicWith(name, arg, msg, evs, inst) ==
    /\ lastCall' = [name |-> name, arg |-> arg, ret |-> None]
    /\ calls' = evs
    /\ panicked' = Some(msg)
    /\ RETRO_INSTANCE' = inst

Panic(name, arg, msg, evs) == PanicWith(name, arg, msg, evs, RETRO_INSTANCE)

----------------------------------------------------------------------------
(* set_core *)

\* the message built from the Core handed to set_core
AlreadyRegistered_offered(registered, offered) ==
    LET info == get_info(offered) IN
    <<AlreadyRegisteredMsg, info.library_name, " ", info.library_version>>

\* the message of the panic in set_core: the registered Core's name and version
AlreadyRegistered(registered, offered) ==
    LET info == get_info(registered) IN
    <<AlreadyRegisteredMsg, info.library_name, " ", info.library_version>>

\* set_core without the is_some check
set_core_replace(inst, core) ==
    [inst |-> Some(CoreWrapper_new(core)), panic |-> None, evs |-> <<>>]

\* set_core on slot inst: the slot afterwards, the panic if any, and the calls made
set_core(inst, core) ==
    IF is_some(inst)
    THEN [inst |-> inst,
          panic |-> Some(AlreadyRegistered(unwrap(inst).core, core)),
          evs |-> <<Ev("get_info", NoContext, <<unwrap(inst).core.id>>, None)>>]
    ELSE [inst |-> Some(CoreWrapper_new(core)), panic |-> None, evs |-> <<>>]

\* the program calls set_core itself (the function is public)
set_core_call ==
    /\ panicked = None
    /\ \E id \in Cores :
         LET r == set_core(RETRO_INSTANCE, NewCore(id)) IN
         IF is_some(r.panic)
         THEN /\ Panic("set_core", <<id>>, unwrap(r.panic), r.evs)
              /\ UNCHANGED hist
         ELSE /\ Return("set_core", <<id>>, None, r.evs, r.inst)
              /\ hist' = [Registered(hist, id) EXCEPT !.explicit = Inc(@)]
    /\ UNCHANGED SYS_INFO

----------------------------------------------------------------------------
(* forward! *)

\* the wrapper built anew, its other fields lost
after_handler_rebuilt(wrapper, core) == CoreWrapper_new(core)

\* `$wrapper.core.$handler(&mut ctx)`: the handler has the Core alone to change
after_handler(wrapper, core) == [wrapper EXCEPT !.core = core]

forward(name, handler) ==
    /\ panicked = None
    /\ IF is_some(RETRO_INSTANCE)
       THEN LET wrapper == unwrap(RETRO_INSTANCE)
                ctx == GenericContext_new(wrapper.environment_callback)
                ret == HandlerReturn(handler, wrapper.core)
            IN  \E core \in CoreAfter(wrapper.core) :
                    Return(name, <<>>, ret, <<Ev(handler, ctx, <<>>, ret)>>,
                           Some(after_handler(wrapper, core)))
       ELSE Panic(name, <<>>, NotInitialized(name), <<>>)
    /\ UNCHANGED <<SYS_INFO, hist>>

retro_cheat_reset == forward("retro_cheat_reset", "on_cheat_reset")
retro_deinit == forward("retro_deinit", "on_deinit")
retro_get_region == forward("retro_get_region", "on_get_region")
retro_reset == forward("retro_reset", "on_reset")
retro_serialize_size == forward("retro_serialize_size", "get_serialize_size")
retro_unload_game == forward("retro_unload_game", "on_unload_game")

----------------------------------------------------------------------------
(* callback! *)

\* what the host may pass to a callback setter: absent, present with a null
\* address, present with the address of a function
CallbackArgs == {None, Some(NULL)} \cup {Some(f) : f \in IoCallbacks}

\* the setter without its NULL check
null_callback_unchecked(arg1) == FALSE

\* `arg1.is_some()` and `(arg1.unwrap() as *const c_void).is_null()`
null_callback(arg1) == is_some(arg1) /\ is_null(unwrap(arg1))

callback(name) ==
    /\ panicked = None
    /\ \E arg1 \in CallbackArgs :
         IF is_some(RETRO_INSTANCE)
         THEN LET wrapper == unwrap(RETRO_INSTANCE) IN
              IF null_callback(arg1)
              THEN Panic(name, <<arg1>>, NullPointer(CallbackSetters[name].arg), <<>>)
              ELSE Return(name, <<arg1>>, None, <<>>,
                          Some(on_set_callback(wrapper, CallbackSetters[name].field, arg1)))
         ELSE Panic(name, <<arg1>>, NotInitialized(name), <<>>)
    /\ UNCHANGED <<SYS_INFO, hist>>

retro_set_audio_sample == callback("retro_set_audio_sample")
retro_set_audio_sample_batch == callback("retro_set_audio_sample_batch")
retro_set_input_poll == callback("retro_set_input_poll")
retro_set_input_state == callback("retro_set_input_state")
retro_set_video_refresh == callback("retro_set_video_refresh")

----------------------------------------------------------------------------
(* retro_api_version, retro_init *)

RETRO_API_VERSION == 1

retro_api_version ==
    /\ panicked = None
    /\ Return("retro_api_version", <<>>, Some(RETRO_API_VERSION), <<>>, RETRO_INSTANCE)
    /\ UNCHANGED <<SYS_INFO, hist>>

\* a retro_init that refuses to run before the environment callback is bound
retro_init_call_environment_checked ==
    /\ panicked = None
    /\ IF is_some(RETRO_INSTANCE)
       THEN LET wrapper == unwrap(RETRO_INSTANCE)
                env == wrapper.environment_callback
            IN  IF is_none(env)
                THEN Panic("retro_init", <<>>, <<"retro_init", "no environment">>, <<>>)
                ELSE
                \E dupe \in BOOLEAN : \E core \in CoreAfter(wrapper.core) :
                    Return("retro_init", <<>>, None,
                           <<Ev("environment::can_dupe", NoContext, <<env>>, Some(dupe)),
                             Ev("on_init", InitContext_new(env), <<>>, None)>>,
                           Some([wrapper EXCEPT !.can_dupe = dupe, !.core = core]))
       ELSE Panic("retro_init", <<>>, NotInitialized("retro_init"), <<>>)
    /\ UNCHANGED SYS_INFO

\* the body of retro_init
retro_init_call ==
    /\ panicked = None
    /\ IF is_some(RETRO_INSTANCE)
       THEN LET wrapper == unwrap(RETRO_INSTANCE)
                env == wrapper.environment_callback
            IN  \E dupe \in BOOLEAN : \E core \in CoreAfter(wrapper.core) :
                    Return("retro_init", <<>>, None,
                           <<Ev("environment::can_dupe", NoContext, <<env>>, Some(dupe)),
                             Ev("on_init", InitContext_new(env), <<>>, None)>>,
                           Some([wrapper EXCEPT !.can_dupe = dupe, !.core = core]))
       ELSE Panic("retro_init", <<>>, NotInitialized("retro_init"), <<>>)
    /\ UNCHANGED SYS_INFO

retro_init == retro_init_call /\ UNCHANGED hist

\* retro_init, with the history recording that on_init has returned
retro_init_ordered ==
    /\ retro_init_call
    /\ hist' = [hist EXCEPT !.inited = @ \/ is_none(panicked')]

----------------------------------------------------------------------------
(* retro_get_system_info *)

InfoPointers == {NULL, "info1"}

\* the static value rebuilt in every call
sys_info_missing_always(sys) == TRUE

\* SYS_INFO.is_none(): whether the static value has to be built in this call
sys_info_missing(sys) == is_none(sys)

\* what the host's struct holds afterwards: pointers into the box, and flags
WriteSystemInfo(sys_info) ==
    [library_name |-> [ptr |-> sys_info.box, str |-> sys_info.value.library_name],
     library_version |-> [ptr |-> sys_info.box, str |-> sys_info.value.library_version],
     valid_extensions |-> [ptr |-> sys_info.box, str |-> sys_info.value.valid_extensions],
     need_fullpath |-> sys_info.value.need_fullpath,
     block_extract |-> sys_info.value.block_extract]

\* the struct pointer dereferenced without the plausibility check
info_is_null_unchecked(info) == FALSE

\* `if info.is_null()` of retro_get_system_info and retro_get_system_av_info
info_is_null(info) == is_null(info)

retro_get_system_info ==
    /\ panicked = None
    /\ \E info \in InfoPointers :
         IF info_is_null(info)
         THEN /\ Panic("retro_get_system_info", <<info>>,
                       <<"Expected retro_system_info, got NULL pointer instead!">>, <<>>)
              /\ UNCHANGED <<SYS_INFO, hist>>
         ELSE IF sys_info_missing(SYS_INFO)
         THEN LET r == set_core(RETRO_INSTANCE, NewCore(RetroCoreDefinition)) IN
              IF is_some(r.panic)
              THEN /\ Panic("retro_get_system_info", <<info>>, unwrap(r.panic), r.evs)
                   /\ UNCHANGED <<SYS_INFO, hist>>
              ELSE IF is_some(r.inst)
              THEN LET wrapper == unwrap(r.inst)
                       built == [box |-> Inc(hist.sys_info_built),
                                 value |-> get_info(wrapper.core)]
                   IN  /\ SYS_INFO' = Some(built)
                       /\ hist' = [Registered(hist, RetroCoreDefinition) EXCEPT
                                       !.sys_info_built = Inc(@)]
                       /\ Return("retro_get_system_info", <<info>>,
                                 Some(WriteSystemInfo(built)),
                                 r.evs \o <<Ev("get_info", NoContext,
                                               <<wrapper.core.id>>, None)>>,
                                 r.inst)
              ELSE /\ Panic("retro_get_system_info", <<info>>, NoCoreInstance, r.evs)
                   /\ UNCHANGED <<SYS_INFO, hist>>
         ELSE /\ Return("retro_get_system_info", <<info>>,
                        Some(WriteSystemInfo(unwrap(SYS_INFO))), <<>>, RETRO_INSTANCE)
              /\ UNCHANGED <<SYS_INFO, hist>>

----------------------------------------------------------------------------
(* retro_get_system_av_info *)

AvInfoPointers == {NULL, "av_info1"}

\* what the Core answers to on_get_av_info: it decides, from its state
on_get_av_info(core) ==
    [geometry |-> [base_width |-> 800 + core.st, base_height |-> 600],
     timing |-> [fps |-> 60, sample_rate |-> 0]]

\* the geometry copied, the timing left as the host's struct had it
copy_av_info_geometry_only(av_info) ==
    [geometry |-> av_info.geometry, timing |-> [fps |-> 0, sample_rate |-> 0]]

\* info.geometry = av_info.geometry; info.timing = av_info.timing;
copy_av_info(av_info) ==
    [geometry |-> av_info.geometry, timing |-> av_info.timing]

retro_get_system_av_info ==
    /\ panicked = None
    /\ \E info \in AvInfoPointers :
         IF is_some(RETRO_INSTANCE)
         THEN LET wrapper == unwrap(RETRO_INSTANCE) IN
              IF info_is_null(info)
              THEN Panic("retro_get_system_av_info", <<info>>,
                         <<"Expected retro_system_av_info, got NULL pointer instead!">>,
                         <<>>)
              ELSE LET ctx == GetAvInfoContext_new(wrapper.environment_callback)
                       av_info == on_get_av_info(wrapper.core)
                   IN  \E core \in CoreAfter(wrapper.core) :
                           Return("retro_get_system_av_info", <<info>>,
                                  Some(copy_av_info(av_info)),
                                  <<Ev("on_get_av_info", ctx, <<>>, Some(av_info))>>,
                                  Some([wrapper EXCEPT !.core = core]))
         ELSE Panic("retro_get_system_av_info", <<info>>,
                    NotInitialized("retro_get_system_av_info"), <<>>)
    /\ UNCHANGED <<SYS_INFO, hist>>

----------------------------------------------------------------------------
(* retro_set_environment *)

\* the crate features this build enables
FeatureLog == TRUE
FeatureUnstableEnvCommands == TRUE

EnvironmentArgs == {None} \cup {Some(e) : e \in EnvCallbacks}

\* the one-time setup without its flag
setup_due_always(wrapper) == TRUE

\* `if !wrapper.environment_set`: whether the one-time setup is still due
setup_due(wrapper) == ~wrapper.environment_set

\* a null argument leaves the stored callback alone
store_environment_keep(wrapper, environment) ==
    IF is_some(environment)
    THEN [wrapper EXCEPT !.environment_callback = Some(unwrap(environment))]
    ELSE wrapper

\* environment_callback.replace(callback) for Some(callback), .take() for None
store_environment(wrapper, environment) ==
    IF is_some(environment)
    THEN [wrapper EXCEPT !.environment_callback = Some(unwrap(environment))]
    ELSE [wrapper EXCEPT !.environment_callback = None]

\* an unregistered slot treated as the forwarded entry points treat it
set_environment_unregistered_fatal(environment) ==
    Panic("retro_set_environment", <<environment>>,
          NotInitialized("retro_set_environment"), <<>>)

\* `if let Some(wrapper) = RETRO_INSTANCE.as_mut()` has no else branch
set_environment_unregistered(environment) ==
    Return("retro_set_environment", <<environment>>, None, <<>>, RETRO_INSTANCE)

\* on_set_environment told before set_core_options has run
set_environment_calls_notify_first(setup, options, notify) ==
    setup \o notify \o options

\* the order of retro_set_environment: the one-time setup, set_core_options,
\* then on_set_environment
set_environment_calls(setup, options, notify) ==
    setup \o options \o notify

retro_set_environment ==
    /\ panicked = None
    /\ UNCHANGED SYS_INFO
    /\ \E environment \in EnvironmentArgs :
         IF is_some(RETRO_INSTANCE)
         THEN LET wrapper == unwrap(RETRO_INSTANCE)
                  initial == is_some(environment) /\ setup_due(wrapper)
              IN
              IF initial /\ FeatureLog /\ hist.logger_set
              THEN \* log::set_boxed_logger(..).expect("could not set logger")
                   /\ PanicWith("retro_set_environment", <<environment>>,
                                <<"could not set logger">>,
                                <<Ev("init_log", NoContext, <<environment>>, None)>>,
                                Some([wrapper EXCEPT !.environment_set = TRUE]))
                   /\ hist' = [hist EXCEPT !.one_time_setup = Inc(@)]
              ELSE
              \E bitmasks \in BOOLEAN, options_ok \in BOOLEAN :
              \E core \in CoreAfter(wrapper.core) :
                LET w1 == IF initial
                          THEN [wrapper EXCEPT
                                  !.environment_set = TRUE,
                                  !.supports_bitmasks =
                                      IF FeatureUnstableEnvCommands THEN bitmasks ELSE @]
                          ELSE wrapper
                    w2 == store_environment(w1, environment)
                    ctx == SetEnvironmentContext_new(w2.environment_callback)
                    setup ==
                        IF initial
                        THEN (IF FeatureLog
                              THEN <<Ev("init_log", NoContext, <<environment>>, None)>>
                              ELSE <<>>)
                             \o (IF FeatureUnstableEnvCommands
                                 THEN <<Ev("environment::get_input_bitmasks", NoContext,
                                           <<environment>>, Some(bitmasks))>>
                                 ELSE <<>>)
                        ELSE <<>>
                    options ==
                        IF initial
                        THEN <<Ev("set_core_options", ctx, <<>>, Some(options_ok))>>
                        ELSE <<>>
                IN  \* the host and set_core_options are asked only in the initial call
                    /\ (~initial => bitmasks /\ options_ok)
                    /\ Return("retro_set_environment", <<environment>>, None,
                              set_environment_calls(setup, options,
                                <<Ev("on_set_environment", ctx, <<initial>>, None)>>),
                              Some([w2 EXCEPT !.core = core]))
                    /\ hist' = IF initial
                               THEN [hist EXCEPT !.one_time_setup = Inc(@),
                                                 !.logger_set = @ \/ FeatureLog]
                               ELSE hist
         ELSE /\ set_environment_unregistered(environment)
              /\ UNCHANGED hist

----------------------------------------------------------------------------
(* retro_set_controller_port_device *)

Ports == {0}
Devices == {1}

retro_set_controller_port_device ==
    /\ panicked = None
    /\ UNCHANGED <<SYS_INFO, hist>>
    /\ \E port \in Ports, device \in Devices :
         IF is_some(RETRO_INSTANCE)
         THEN LET wrapper == unwrap(RETRO_INSTANCE) IN
              \E core \in CoreAfter(wrapper.core) :
                  Return("retro_set_controller_port_device", <<port, device>>, None,
                         <<Ev("on_set_controller_port_device", NoContext,
                              <<port, device>>, None)>>,
                         Some([wrapper EXCEPT !.core = core]))
         ELSE Panic("retro_set_controller_port_device", <<port, device>>,
                    NotInitialized("retro_set_controller_port_device"), <<>>)

----------------------------------------------------------------------------
(* retro_run *)

\* `if environment::get_variable_update(..)`: the options-changed notification
options_changed_calls(update, wrapper) ==
    IF update
    THEN <<Ev("on_options_changed",
              OptionsChangedContext_new(wrapper.environment_callback), <<>>, None)>>
    ELSE <<>>

\* `if let Some(callback) = wrapper.input_poll_callback`: the host's poll callback
input_poll_calls(wrapper) ==
    IF is_some(wrapper.input_poll_callback)
    THEN <<Ev("input_poll_callback", NoContext,
              <<unwrap(wrapper.input_poll_callback)>>, None)>>
    ELSE <<>>

\* retro_run polling the input after the Core has run
run_calls_poll_last(update, wrapper) ==
    <<Ev("environment::get_variable_update", NoContext,
         <<wrapper.environment_callback>>, Some(update))>>
      \o options_changed_calls(update, wrapper)
      \o <<Ev("on_run", RunContext(wrapper), <<wrapper.frame_delta>>, None)>>
      \o input_poll_calls(wrapper)

\* what retro_run invokes, in order
run_calls(update, wrapper) ==
    <<Ev("environment::get_variable_update", NoContext,
         <<wrapper.environment_callback>>, Some(update))>>
      \o options_changed_calls(update, wrapper)
      \o input_poll_calls(wrapper)
      \o <<Ev("on_run", RunContext(wrapper), <<wrapper.frame_delta>>, None)>>

\* the pending delta read but left in place
take_frame_delta_keep(wrapper) == wrapper

\* wrapper.frame_delta.take(): the slot's field after on_run was handed the value
take_frame_delta(wrapper) == [wrapper EXCEPT !.frame_delta = None]

retro_run ==
    /\ panicked = None
    /\ UNCHANGED <<SYS_INFO, hist>>
    /\ IF is_some(RETRO_INSTANCE)
       THEN LET wrapper == unwrap(RETRO_INSTANCE) IN
            \E update \in BOOLEAN : \E core \in CoreAfter(wrapper.core) :
                Return("retro_run", <<>>, None, run_calls(update, wrapper),
                       Some([take_frame_delta(wrapper) EXCEPT !.core = core]))
       ELSE Panic("retro_run", <<>>, NotInitialized("retro_run"), <<>>)

----------------------------------------------------------------------------
(* retro_serialize, retro_unserialize, retro_cheat_set *)

\* buffer sizes the host passes are 0..MaxSize
MaxSize == 1
Sizes == 0..MaxSize
CodePointers == {NULL, "code1"}

\* std::slice::from_raw_parts_mut(data, size)
Slice(data, size) == [data |-> data, len |-> size]

\* the buffer handed to the Core without the NULL check
data_missing_unchecked(data) == FALSE

\* `if data.is_null()`
data_missing(data) == is_null(data)

serialize(name, handler) ==
    /\ panicked = None
    /\ UNCHANGED <<SYS_INFO, hist>>
    /\ \E data \in DataPointers, size \in Sizes :
         IF data_missing(data)
         THEN Return(name, <<data, size>>, Some(FALSE), <<>>, RETRO_INSTANCE)
         ELSE IF is_some(RETRO_INSTANCE)
         THEN LET wrapper == unwrap(RETRO_INSTANCE)
                  ctx == GenericContext_new(wrapper.environment_callback)
              IN  \E status \in BOOLEAN : \E core \in CoreAfter(wrapper.core) :
                      Return(name, <<data, size>>, Some(status),
                             <<Ev(handler, ctx, <<Slice(data, size)>>, Some(status))>>,
                             Some([wrapper EXCEPT !.core = core]))
         ELSE Panic(name, <<data, size>>, NotInitialized(name), <<>>)

retro_serialize == serialize("retro_serialize", "on_serialize")
retro_unserialize == serialize("retro_unserialize", "on_unserialize")

\* the code pointer wrapped into a CStr without the NULL check
code_missing_unchecked(code) == FALSE

\* `if code.is_null()`
code_missing(code) == is_null(code)

retro_cheat_set ==
    /\ panicked = None
    /\ UNCHANGED <<SYS_INFO, hist>>
    /\ \E index \in {0}, enabled \in BOOLEAN, code \in CodePointers :
         IF code_missing(code)
         THEN Return("retro_cheat_set", <<index, enabled, code>>, None, <<>>,
                     RETRO_INSTANCE)
         ELSE IF is_some(RETRO_INSTANCE)
         THEN LET wrapper == unwrap(RETRO_INSTANCE)
                  ctx == GenericContext_new(wrapper.environment_callback)
              IN  \E core \in CoreAfter(wrapper.core) :
                      Return("retro_cheat_set", <<index, enabled, code>>, None,
                             <<Ev("on_cheat_set", ctx, <<index, enabled, Deref(code)>>,
                                  None)>>,
                             Some([wrapper EXCEPT !.core = core]))
         ELSE Panic("retro_cheat_set", <<index, enabled, code>>,
                    NotInitialized("retro_cheat_set"), <<>>)

----------------------------------------------------------------------------
(* retro_load_game, retro_load_game_special *)

\* the service interfaces of the wrapper handed to LoadGameContext::new
LoadGameServices ==
    {"camera_interface", "perf_interface", "location_interface", "rumble_interface"}
      \cup (IF FeatureUnstableEnvCommands THEN {"sensor_interface"} ELSE {})

\* the game pointer handed on without the NULL check
game_argument_always_some(game) == Some(Deref(game))

\* `if game.is_null() { None } else { Some(*game) }`
game_argument(game) == IF is_null(game) THEN None ELSE Some(Deref(game))

\* `return status`: what retro_load_game hands back to the host
load_game_result(status) == status

\* the load hook alone, without on_options_changed before it
load_calls_without_options(env, hook, ctx, arg, status) ==
    <<Ev(hook, ctx, arg, Some(status))>>

\* what retro_load_game and retro_load_game_special call, in order
load_calls(env, hook, ctx, arg, status) ==
    <<Ev("on_options_changed", OptionsChangedContext_new(env), <<>>, None),
      Ev(hook, ctx, arg, Some(status))>>

\* the body of retro_load_game
retro_load_game_call ==
    /\ panicked = None
    /\ UNCHANGED SYS_INFO
    /\ \E game \in GamePointers :
         IF is_some(RETRO_INSTANCE)
         THEN LET wrapper == unwrap(RETRO_INSTANCE)
                  env == wrapper.environment_callback
              IN  \E status \in BOOLEAN : \E core \in CoreAfter(wrapper.core) :
                      Return("retro_load_game", <<game>>, Some(load_game_result(status)),
                             load_calls(env, "on_load_game",
                                        LoadGameContext_new(env, LoadGameServices),
                                        <<game_argument(game)>>, status),
                             Some([wrapper EXCEPT !.core = core]))
         ELSE Panic("retro_load_game", <<game>>, NotInitialized("retro_load_game"), <<>>)

retro_load_game == retro_load_game_call /\ UNCHANGED hist

\* retro_load_game, with the history recording that a load has succeeded
retro_load_game_ordered ==
    /\ retro_load_game_call
    /\ hist' = [hist EXCEPT !.loaded = @ \/ lastCall'.ret = Some(TRUE)]

\* the info pointer handed to the Core without the NULL check
special_info_missing_unchecked(info) == FALSE

\* `if info.is_null()` of retro_load_game_special
special_info_missing(info) == is_null(info)

\* the body of retro_load_game_special
retro_load_game_special_call ==
    /\ panicked = None
    /\ UNCHANGED SYS_INFO
    /\ \E game_type \in {0}, info \in GamePointers, num_info \in Sizes :
         IF special_info_missing(info)
         THEN Return("retro_load_game_special", <<game_type, info, num_info>>,
                     Some(FALSE), <<>>, RETRO_INSTANCE)
         ELSE IF is_some(RETRO_INSTANCE)
         THEN LET wrapper == unwrap(RETRO_INSTANCE)
                  env == wrapper.environment_callback
              IN  \E status \in BOOLEAN : \E core \in CoreAfter(wrapper.core) :
                      Return("retro_load_game_special", <<game_type, info, num_info>>,
                             Some(status),
                             load_calls(env, "on_load_game_special",
                                        LoadGameSpecialContext_new(env),
                                        <<game_type, info, num_info>>, status),
                             Some([wrapper EXCEPT !.core = core]))
         ELSE Panic("retro_load_game_special", <<game_type, info, num_info>>,
                    NotInitialized("retro_load_game_special"), <<>>)

retro_load_game_special == retro_load_game_special_call /\ UNCHANGED hist

\* retro_load_game_special, with the history recording that a load has succeeded
retro_load_game_special_ordered ==
    /\ retro_load_game_special_call
    /\ hist' = [hist EXCEPT !.loaded = @ \/ lastCall'.ret = Some(TRUE)]

----------------------------------------------------------------------------
(* retro_get_memory_data, retro_get_memory_size *)

MemoryIds == {0}

memory(name, handler) ==
    /\ panicked = None
    /\ UNCHANGED <<SYS_INFO, hist>>
    /\ \E id \in MemoryIds :
         IF is_some(RETRO_INSTANCE)
         THEN LET wrapper == unwrap(RETRO_INSTANCE)
                  ctx == GenericContext_new(wrapper.environment_callback)
                  ret == Some(wrapper.core.st)
              IN  \E core \in CoreAfter(wrapper.core) :
                      Return(name, <<id>>, ret, <<Ev(handler, ctx, <<id>>, ret)>>,
                             Some([wrapper EXCEPT !.core = core]))
         ELSE Panic(name, <<id>>, NotInitialized(name), <<>>)

retro_get_memory_data == memory("retro_get_memory_data", "get_memory_data")
retro_get_memory_size == memory("retro_get_memory_size", "get_memory_size")

----------------------------------------------------------------------------
(* The callbacks the bridge hands to the host *)

\* a side callback that insists on a registered Core, as forward! does
side_callback_unregistered_fatal(name, arg) ==
    Panic(name, arg, NotInitialized(name), <<>>)

\* the side callbacks' `if let Some(wrapper) = RETRO_INSTANCE.as_mut()` has no
\* else branch: with an empty slot they return
side_callback_unregistered(name, arg) ==
    Return(name, arg, None, <<>>, RETRO_INSTANCE)

retro_keyboard_callback_fn ==
    /\ panicked = None
    /\ UNCHANGED <<SYS_INFO, hist>>
    /\ \E down \in BOOLEAN, keycode \in {0}, character \in {0}, key_modifiers \in {0} :
         LET arg == <<down, keycode, character, key_modifiers>> IN
         IF is_some(RETRO_INSTANCE)
         THEN LET wrapper == unwrap(RETRO_INSTANCE) IN
              \E core \in CoreAfter(wrapper.core) :
                  Return("retro_keyboard_callback_fn", arg, None,
                         <<Ev("on_keyboard_event", NoContext,
                              <<down, [retro_key |-> keycode], character,
                                [retro_mod |-> key_modifiers]>>, None)>>,
                         Some([wrapper EXCEPT !.core = core]))
         ELSE side_callback_unregistered("retro_keyboard_callback_fn", arg)

retro_frame_time_callback_fn ==
    /\ panicked = None
    /\ UNCHANGED <<SYS_INFO, hist>>
    /\ \E usec \in 0..MaxUsec :
         IF is_some(RETRO_INSTANCE)
         THEN Return("retro_frame_time_callback_fn", <<usec>>, None, <<>>,
                     Some([unwrap(RETRO_INSTANCE) EXCEPT !.frame_delta = Some(usec)]))
         ELSE side_callback_unregistered("retro_frame_time_callback_fn", <<usec>>)

retro_audio_callback_fn ==
    /\ panicked = None
    /\ UNCHANGED <<SYS_INFO, hist>>
    /\ IF is_some(RETRO_INSTANCE)
       THEN LET wrapper == unwrap(RETRO_INSTANCE) IN
            \E core \in CoreAfter(wrapper.core) :
                Return("retro_audio_callback_fn", <<>>, None,
                       <<Ev("on_write_audio", AudioContext(wrapper), <<>>, None)>>,
                       Some([wrapper EXCEPT !.core = core]))
       ELSE side_callback_unregistered("retro_audio_callback_fn", <<>>)

retro_audio_set_state_callback_fn ==
    /\ panicked = None
    /\ UNCHANGED <<SYS_INFO, hist>>
    /\ \E enabled \in BOOLEAN :
         IF is_some(RETRO_INSTANCE)
         THEN LET wrapper == unwrap(RETRO_INSTANCE) IN
              \E core \in CoreAfter(wrapper.core) :
                  Return("retro_audio_set_state_callback_fn", <<enabled>>, None,
                         <<Ev("on_audio_set_state", NoContext, <<enabled>>, None)>>,
                         Some([wrapper EXCEPT !.core = core]))
         ELSE side_callback_unregistered("retro_audio_set_state_callback_fn", <<enabled>>)

----------------------------------------------------------------------------
(* The program *)

Init ==
    /\ RETRO_INSTANCE = None
    /\ SYS_INFO = None
    /\ panicked = None
    /\ lastCall = [name |-> "", arg |-> <<>>, ret |-> None]
    /\ calls = <<>>
    /\ hist = [registered |-> 0, first |-> "", explicit |-> 0, sys_info_built |-> 0,
               one_time_setup |-> 0, logger_set |-> FALSE,
               inited |-> FALSE, loaded |-> FALSE]

Next ==
    \/ set_core_call
    \/ retro_cheat_reset
    \/ retro_deinit
    \/ retro_get_region
    \/ retro_reset
    \/ retro_serialize_size
    \/ retro_unload_game
    \/ retro_set_audio_sample
    \/ retro_set_audio_sample_batch
    \/ retro_set_input_poll
    \/ retro_set_input_state
    \/ retro_set_video_refresh
    \/ retro_api_version
    \/ retro_init
    \/ retro_get_system_info
    \/ retro_get_system_av_info
    \/ retro_set_environment
    \/ retro_set_controller_port_device
    \/ retro_run
    \/ retro_serialize
    \/ retro_unserialize
    \/ retro_cheat_set
    \/ retro_load_game
    \/ retro_load_game_special
    \/ retro_get_memory_data
    \/ retro_get_memory_size
    \/ retro_keyboard_callback_fn
    \/ retro_frame_time_callback_fn
    \/ retro_audio_callback_fn
    \/ retro_audio_set_state_callback_fn

Spec == Init /\ [][Next]_vars

\* the lifecycle without the setters of the audio, video and input-state
\* callbacks (they are instances of callback! like retro_set_input_poll)
NextLifecycle ==
    \/ set_core_call
    \/ retro_cheat_reset
    \/ retro_deinit
    \/ retro_get_region
    \/ retro_reset
    \/ retro_serialize_size
    \/ retro_unload_game
    \/ retro_set_input_poll
    \/ retro_api_version
    \/ retro_init
    \/ retro_get_system_info
    \/ retro_get_system_av_info
    \/ retro_set_environment
    \/ retro_set_controller_port_device
    \/ retro_run
    \/ retro_serialize
    \/ retro_unserialize
    \/ retro_cheat_set
    \/ retro_load_game
    \/ retro_load_game_special
    \/ retro_get_memory_data
    \/ retro_get_memory_size
    \/ retro_keyboard_callback_fn
    \/ retro_frame_time_callback_fn
    \/ retro_audio_callback_fn
    \/ retro_audio_set_state_callback_fn

SpecLifecycle == Init /\ [][NextLifecycle]_vars

\* registration, the five callback setters, and the calls that use the callbacks
NextCallbacks ==
    \/ set_core_call
    \/ retro_get_system_info
    \/ retro_set_audio_sample
    \/ retro_set_audio_sample_batch
    \/ retro_set_input_poll
    \/ retro_set_input_state
    \/ retro_set_video_refresh
    \/ retro_run
    \/ retro_audio_callback_fn

SpecCallbacks == Init /\ [][NextCallbacks]_vars

\* every entry point, but only while no Core is registered and for the first
\* call made after the registration
NextFirstCalls ==
    /\ is_none(RETRO_INSTANCE) \/ lastCall.name \in {"set_core", "retro_get_system_info"}
    /\ Next

SpecFirstCalls == Init /\ [][NextFirstCalls]_vars

\* the calls of a session from registration to the first frames, with the
\* history recording which of retro_init and a successful load have happened
NextOrder ==
    \/ set_core_call
    \/ retro_get_system_info
    \/ retro_set_environment
    \/ retro_init_ordered
    \/ retro_load_game_ordered
    \/ retro_load_game_special_ordered
    \/ retro_get_system_av_info
    \/ retro_run
    \/ retro_frame_time_callback_fn

SpecOrder == Init /\ [][NextOrder]_vars

----------------------------------------------------------------------------
(* Entry points called while no Core is registered *)

\* the exported entry points that need the Core
DispatchEntryPoints ==
    {"retro_cheat_reset", "retro_deinit", "retro_get_region", "retro_reset",
     "retro_serialize_size", "retro_unload_game",
     "retro_set_audio_sample", "retro_set_audio_sample_batch", "retro_set_input_poll",
     "retro_set_input_state", "retro_set_video_refresh",
     "retro_init", "retro_get_system_av_info", "retro_set_environment",
     "retro_set_controller_port_device", "retro_run", "retro_serialize",
     "retro_unserialize", "retro_cheat_set", "retro_load_game",
     "retro_load_game_special", "retro_get_memory_data", "retro_get_memory_size"}

\* the slot is never emptied, so a call that leaves it absent found it absent
CalledUnregistered == is_none(RETRO_INSTANCE) /\ lastCall.name \in DispatchEntryPoints

\* the call passed a null pointer that the entry point checks before the slot
NullArgumentFirst ==
    \/ lastCall.name \in {"retro_serialize", "retro_unserialize"} /\ is_null(lastCall.arg[1])
    \/ lastCall.name = "retro_cheat_set" /\ is_null(lastCall.arg[3])
    \/ lastCall.name = "retro_load_game_special" /\ is_null(lastCall.arg[2])

FatalNamingEntry ==
    is_some(panicked) /\ unwrap(panicked) = <<lastCall.name, NotInitializedMsg>>

\* C1 as stated: every dispatch entry point called while no Core is registered
\* ends in a panic whose message names the entry point, whatever the arguments
C1_AsStated == CalledUnregistered => FatalNamingEntry

\* C1 amended: called while no Core is registered, retro_set_environment returns
\* normally, retro_serialize, retro_unserialize, retro_cheat_set and
\* retro_load_game_special return their default when their pointer is null, and
\* every other call of a dispatch entry point ends in a panic naming the entry point
C1_Unregistered ==
    CalledUnregistered =>
        IF lastCall.name = "retro_set_environment" \/ NullArgumentFirst
        THEN is_none(panicked) /\ calls = <<>>
        ELSE FatalNamingEntry

\* retro_serialize with a buffer, called while no Core is registered, has panicked
C1_Witness ==
    /\ CalledUnregistered
    /\ lastCall.name = "retro_serialize"
    /\ ~is_null(lastCall.arg[1])
    /\ FatalNamingEntry

----------------------------------------------------------------------------
(* Registration *)

\* C2: a set_core call on a slot that holds a Core panics, and the message
\* carries the name and the version of the Core registered first, as that Core
\* reports them at the time of the call
C2_SecondRegistrationFatal ==
    [][(is_some(RETRO_INSTANCE) /\ lastCall'.name = "set_core") =>
         /\ is_some(panicked')
         /\ unwrap(panicked') =
               <<AlreadyRegisteredMsg, hist.first, " ",
                 get_info(unwrap(RETRO_INSTANCE).core).library_version>>
         /\ unwrap(RETRO_INSTANCE).core.id = hist.first]_vars

\* CoreB was offered to a slot holding CoreA in a later internal state, and the
\* panic names CoreA and the version CoreA reports then
C2_Witness ==
    /\ lastCall.name = "set_core"
    /\ lastCall.arg = <<"CoreB">>
    /\ is_some(panicked)
    /\ unwrap(panicked) = <<AlreadyRegisteredMsg, "CoreA", " ", Versions[2]>>

\* C3: the slot is populated at most once; once it holds a Core it is never
\* emptied and never holds another Core, also after a failed set_core
C3_SlotSetOnce ==
    [][/\ hist'.registered <= 1
       /\ is_some(RETRO_INSTANCE) =>
            /\ is_some(RETRO_INSTANCE')
            /\ unwrap(RETRO_INSTANCE').core.id = unwrap(RETRO_INSTANCE).core.id
            /\ hist'.registered = hist.registered]_vars

\* a second set_core, offering another Core, failed and the slot holds the first
C3_Witness ==
    /\ lastCall.name = "set_core"
    /\ is_some(panicked)
    /\ is_some(RETRO_INSTANCE)
    /\ unwrap(RETRO_INSTANCE).core.id = hist.first
    /\ lastCall.arg # <<hist.first>>
    /\ hist.registered = 1

\* the first value of SYS_INFO when retro_get_system_info registers the Core
FirstSysInfo == [box |-> 1, value |-> get_info(NewCore(RetroCoreDefinition))]

\* C4: without an explicit registration, retro_get_system_info registers the
\* Core once and builds the static value once, however many calls follow, and
\* every call writes that same stored value into the host's struct
C4_LazyRegistrationOnce ==
    /\ (hist.explicit = 0 /\ is_some(SYS_INFO)) =>
          /\ hist.registered = 1
          /\ hist.first = RetroCoreDefinition
          /\ hist.sys_info_built = 1
          /\ SYS_INFO = Some(FirstSysInfo)
    /\ (/\ hist.explicit = 0
        /\ lastCall.name = "retro_get_system_info"
        /\ ~is_null(lastCall.arg[1])) =>
          /\ is_none(panicked)
          /\ is_some(SYS_INFO)
          /\ lastCall.ret = Some(WriteSystemInfo(FirstSysInfo))

\* a later call, made when the Core would report another version, queried
\* nothing and wrote the stored value
C4_Witness ==
    /\ hist.explicit = 0
    /\ lastCall.name = "retro_get_system_info"
    /\ is_none(panicked)
    /\ calls = <<>>
    /\ is_some(RETRO_INSTANCE)
    /\ get_info(unwrap(RETRO_INSTANCE).core) # FirstSysInfo.value
    /\ lastCall.ret = Some(WriteSystemInfo(FirstSysInfo))

\* C5 as stated: retro_get_system_info with a non-null pointer is answered in
\* every state, also when the Core was registered through set_core before
C5_AsStated ==
    (lastCall.name = "retro_get_system_info" /\ ~is_null(lastCall.arg[1])) =>
        is_none(panicked) /\ is_some(lastCall.ret)

----------------------------------------------------------------------------
(* retro_set_environment *)

CountHook(evs, h) == Cardinality({i \in DOMAIN evs : evs[i].hook = h})

SetupHooks == {"init_log", "environment::get_input_bitmasks", "set_core_options"}

\* C6: on a registered slot the one-time setup (init_log, get_input_bitmasks,
\* set_core_options) runs in a retro_set_environment call exactly when the
\* callback is non-null and the setup has not run before, so at most once
C6_SetupOnce ==
    [][(lastCall'.name = "retro_set_environment" /\ is_some(RETRO_INSTANCE)) =>
         LET first == is_some(lastCall'.arg[1]) /\ hist.one_time_setup = 0 IN
         /\ is_none(panicked')
         /\ \A h \in SetupHooks : CountHook(calls', h) = IF first THEN 1 ELSE 0
         /\ hist'.one_time_setup = hist.one_time_setup + (IF first THEN 1 ELSE 0)
         /\ hist'.one_time_setup <= 1
         /\ (is_none(lastCall'.arg[1]) /\ hist.one_time_setup = 0) =>
                ~unwrap(RETRO_INSTANCE').environment_set]_vars

\* a call with a non-null callback, made after the setup had run and the
\* callback had been cleared or replaced, ran no setup
C6_Witness ==
    /\ lastCall.name = "retro_set_environment"
    /\ is_some(RETRO_INSTANCE)
    /\ is_some(lastCall.arg[1])
    /\ hist.one_time_setup = 1
    /\ \A h \in SetupHooks : CountHook(calls, h) = 0

\* C7: after a retro_set_environment call on a registered slot the stored
\* callback is the argument (None for null), and the context the Core was
\* handed in that call holds it already
C7_EnvironmentStored ==
    (lastCall.name = "retro_set_environment" /\ is_some(RETRO_INSTANCE)) =>
        /\ is_none(panicked)
        /\ unwrap(RETRO_INSTANCE).environment_callback = lastCall.arg[1]
        /\ CountHook(calls, "on_set_environment") = 1
        /\ \A i \in DOMAIN calls :
              calls[i].ctx.type = "SetEnvironmentContext" =>
                  calls[i].ctx.environment_callback = lastCall.arg[1]

\* a null call cleared a callback stored before
C7_Witness ==
    /\ lastCall.name = "retro_set_environment"
    /\ is_some(RETRO_INSTANCE)
    /\ lastCall.arg = <<None>>
    /\ hist.one_time_setup = 1
    /\ unwrap(RETRO_INSTANCE).environment_callback = None
    /\ calls[1].ctx.environment_callback = None

----------------------------------------------------------------------------
(* The callback setters *)

\* C8: on a registered slot, a setter given a present callback with a null
\* address panics and changes nothing; given an absent or a non-null one it
\* stores its argument in its own field and changes nothing else
C8_CallbackSetters ==
    [][\A name \in DOMAIN CallbackSetters :
         (lastCall'.name = name /\ is_some(RETRO_INSTANCE)) =>
             LET arg1 == lastCall'.arg[1]
                 field == CallbackSetters[name].field
             IN  IF arg1 = Some(NULL)
                 THEN /\ is_some(panicked')
                      /\ unwrap(panicked') =
                            <<"Expected ", CallbackSetters[name].arg,
                              " got NULL pointer instead!">>
                      /\ RETRO_INSTANCE' = RETRO_INSTANCE
                 ELSE /\ is_none(panicked')
                      /\ RETRO_INSTANCE' =
                            Some([unwrap(RETRO_INSTANCE) EXCEPT ![field] = arg1])]_vars

\* a null-address callback was refused and the callback registered before stays
C8_Witness ==
    /\ lastCall.name = "retro_set_video_refresh"
    /\ lastCall.arg = <<Some(NULL)>>
    /\ is_some(panicked)
    /\ is_some(RETRO_INSTANCE)
    /\ unwrap(RETRO_INSTANCE).video_refresh_callback = Some("cb1")

----------------------------------------------------------------------------
(* retro_run, retro_load_game *)

\* the place of a call within retro_run
RunRank(hook) ==
    CASE hook = "environment::get_variable_update" -> 0
      [] hook = "on_options_changed" -> 1
      [] hook = "input_poll_callback" -> 2
      [] hook = "on_run" -> 3
      [] OTHER -> 4

\* C9: a retro_run call on a registered slot invokes on_options_changed once
\* if the host reports a variable update and not otherwise, the registered
\* input-poll callback once, on_run once, in this order
C9_RunOrder ==
    (lastCall.name = "retro_run" /\ is_some(RETRO_INSTANCE)) =>
        LET wrapper == unwrap(RETRO_INSTANCE)
            update == calls[1].ret = Some(TRUE)
        IN  /\ is_none(panicked)
            /\ calls[1].hook = "environment::get_variable_update"
            /\ CountHook(calls, "on_options_changed") = IF update THEN 1 ELSE 0
            /\ CountHook(calls, "input_poll_callback") =
                  IF is_some(wrapper.input_poll_callback) THEN 1 ELSE 0
            /\ CountHook(calls, "on_run") = 1
            /\ \A i, j \in DOMAIN calls :
                  i < j => RunRank(calls[i].hook) < RunRank(calls[j].hook)
            /\ \A i \in DOMAIN calls :
                  calls[i].hook = "input_poll_callback" =>
                      calls[i].arg = <<unwrap(wrapper.input_poll_callback)>>

\* a run with a variable update and a registered input-poll callback
C9_Witness ==
    /\ lastCall.name = "retro_run"
    /\ is_none(panicked)
    /\ Len(calls) = 4
    /\ calls[2].hook = "on_options_changed"
    /\ calls[3].hook = "input_poll_callback"
    /\ calls[4].hook = "on_run"

\* C10: retro_load_game hands the Core None for a null game pointer and
\* Some(game) otherwise, exactly once, and returns what the Core returned
C10_LoadGame ==
    (lastCall.name = "retro_load_game" /\ is_some(RETRO_INSTANCE)) =>
        /\ is_none(panicked)
        /\ CountHook(calls, "on_load_game") = 1
        /\ \A i \in DOMAIN calls :
              calls[i].hook = "on_load_game" =>
                  /\ calls[i].arg[1] = IF is_null(lastCall.arg[1])
                                       THEN None
                                       ELSE Some(Deref(lastCall.arg[1]))
                  /\ lastCall.ret = calls[i].ret
                  /\ is_some(calls[i].ret)

\* a load with a null game pointer that the Core accepted
C10_Witness ==
    /\ lastCall.name = "retro_load_game"
    /\ lastCall.arg = <<NULL>>
    /\ lastCall.ret = Some(TRUE)
    /\ calls[2].hook = "on_load_game"
    /\ calls[2].arg = <<None>>

----------------------------------------------------------------------------
(* retro_load_game_special, retro_serialize, retro_unserialize *)

\* C11 as stated: retro_load_game_special with a null info pointer reaches the
\* Core's load hook and returns what the Core returned, as retro_load_game does
C11_AsStated ==
    (/\ lastCall.name = "retro_load_game_special"
     /\ is_null(lastCall.arg[2])
     /\ is_some(RETRO_INSTANCE)) =>
        /\ CountHook(calls, "on_load_game_special") = 1
        /\ \A i \in DOMAIN calls :
              calls[i].hook = "on_load_game_special" => lastCall.ret = calls[i].ret

\* C11 amended: retro_load_game_special with a null info pointer returns false
\* and invokes nothing; with a non-null one, on a registered slot, it invokes
\* on_load_game_special once with its three arguments and returns its result
C11_LoadGameSpecial ==
    lastCall.name = "retro_load_game_special" =>
        IF is_null(lastCall.arg[2])
        THEN /\ is_none(panicked)
             /\ lastCall.ret = Some(FALSE)
             /\ calls = <<>>
        ELSE is_some(RETRO_INSTANCE) =>
             /\ is_none(panicked)
             /\ CountHook(calls, "on_load_game_special") = 1
             /\ \A i \in DOMAIN calls :
                   calls[i].hook = "on_load_game_special" =>
                       /\ calls[i].arg = lastCall.arg
                       /\ lastCall.ret = calls[i].ret

\* a null info pointer on a registered slot: false, and the Core was not asked
C11_Witness ==
    /\ lastCall.name = "retro_load_game_special"
    /\ is_null(lastCall.arg[2])
    /\ is_some(RETRO_INSTANCE)
    /\ lastCall.ret = Some(FALSE)
    /\ calls = <<>>

\* C12: retro_serialize and retro_unserialize called with a null data pointer
\* return false, whatever the size, invoke nothing and leave the slot as it was
C12_NullData ==
    [][(/\ lastCall'.name \in {"retro_serialize", "retro_unserialize"}
        /\ is_null(lastCall'.arg[1])) =>
         /\ is_none(panicked')
         /\ lastCall'.ret = Some(FALSE)
         /\ calls' = <<>>
         /\ RETRO_INSTANCE' = RETRO_INSTANCE]_vars

\* retro_unserialize with a null pointer and a size above zero, on a registered slot
C12_Witness ==
    /\ lastCall.name = "retro_unserialize"
    /\ lastCall.arg = <<NULL, MaxSize>>
    /\ is_some(RETRO_INSTANCE)
    /\ lastCall.ret = Some(FALSE)
    /\ calls = <<>>

----------------------------------------------------------------------------
(* the order of the host's calls *)

\* the hook each of the three entry points forwards to
OrderedHook(name) ==
    CASE name = "retro_init" -> "on_init"
      [] name = "retro_run" -> "on_run"
      [] name = "retro_get_system_av_info" -> "on_get_av_info"

OrderedEntryPoints == {"retro_init", "retro_run", "retro_get_system_av_info"}

\* C13 as stated: on_init is never invoked before the environment callback is
\* bound, and on_run and on_get_av_info are never invoked before retro_init
\* and a successful load have happened
C13_AsStated ==
    /\ CountHook(calls, "on_init") > 0 =>
          is_some(unwrap(RETRO_INSTANCE).environment_callback)
    /\ (CountHook(calls, "on_run") > 0 \/ CountHook(calls, "on_get_av_info") > 0) =>
          hist.inited /\ hist.loaded

\* C13 amended: the only precondition the bridge checks is that a Core is
\* registered: retro_init, retro_run and retro_get_system_av_info (non-null)
\* invoke their hook once on a registered slot, whatever was called before,
\* and are fatal on an unregistered one
C13_RegisteredOnly ==
    (/\ lastCall.name \in OrderedEntryPoints
     /\ lastCall.arg \notin {<<NULL>>}) =>
        IF is_some(RETRO_INSTANCE)
        THEN /\ is_none(panicked)
             /\ CountHook(calls, OrderedHook(lastCall.name)) = 1
        ELSE /\ panicked = Some(NotInitialized(lastCall.name))
             /\ calls = <<>>

\* on_run invoked with no environment callback, no retro_init and no load
C13_Witness ==
    /\ lastCall.name = "retro_run"
    /\ CountHook(calls, "on_run") = 1
    /\ is_none(unwrap(RETRO_INSTANCE).environment_callback)
    /\ ~hist.inited
    /\ ~hist.loaded

----------------------------------------------------------------------------
(* retro_get_system_av_info *)

\* C14: every retro_get_system_av_info with a non-null pointer on a registered
\* slot invokes on_get_av_info exactly once, and the struct it fills holds the
\* geometry and timing the Core answered in this call, from its state now
C14_AvInfoFresh ==
    [][(/\ lastCall'.name = "retro_get_system_av_info"
        /\ ~is_null(lastCall'.arg[1])
        /\ is_some(RETRO_INSTANCE)) =>
         LET answer == on_get_av_info(unwrap(RETRO_INSTANCE).core) IN
         /\ is_none(panicked')
         /\ CountHook(calls', "on_get_av_info") = 1
         /\ Len(calls') = 1
         /\ calls'[1].ret = Some(answer)
         /\ unwrap(lastCall'.ret).geometry = answer.geometry
         /\ unwrap(lastCall'.ret).timing = answer.timing]_vars

\* a call that returned a geometry other than the Core's first one
C14_Witness ==
    /\ lastCall.name = "retro_get_system_av_info"
    /\ is_some(lastCall.ret)
    /\ CountHook(calls, "on_get_av_info") = 1
    /\ unwrap(lastCall.ret) # on_get_av_info(NewCore(RetroCoreDefinition))
    /\ unwrap(lastCall.ret) = unwrap(calls[1].ret)

----------------------------------------------------------------------------
(* retro_set_environment and on_set_environment *)

\* C15: every retro_set_environment on a registered slot invokes
\* on_set_environment exactly once, as the last thing it does; initial is true
\* in the first call with a non-null callback and false in every other call;
\* in the initial call set_core_options is invoked right before it
C15_SetEnvironmentInitial ==
    [][(/\ lastCall'.name = "retro_set_environment"
        /\ is_some(RETRO_INSTANCE)) =>
         LET first == is_some(lastCall'.arg[1]) /\ hist.one_time_setup = 0
             n == Len(calls')
         IN  /\ is_none(panicked')
             /\ CountHook(calls', "on_set_environment") = 1
             /\ calls'[n].hook = "on_set_environment"
             /\ calls'[n].arg = <<first>>
             /\ hist'.one_time_setup = hist.one_time_setup + (IF first THEN 1 ELSE 0)
             /\ IF first
                THEN /\ CountHook(calls', "set_core_options") = 1
                     /\ calls'[n - 1].hook = "set_core_options"
                ELSE n = 1]_vars

\* a second non-null callback: on_set_environment alone, with initial = false
C15_Witness ==
    /\ lastCall.name = "retro_set_environment"
    /\ is_some(lastCall.arg[1])
    /\ is_some(RETRO_INSTANCE)
    /\ hist.one_time_setup = 1
    /\ Len(calls) = 1
    /\ calls[1].hook = "on_set_environment"
    /\ calls[1].arg = <<FALSE>>

----------------------------------------------------------------------------
(* the pending frame-time delta *)

\* C16: the pending delta is one-shot: a new wrapper has none,
\* retro_frame_time_callback_fn stores its argument over whatever was pending,
\* retro_run hands on_run the pending value (or none) and leaves none pending,
\* and no other call touches it
C16_FrameDeltaOneShot ==
    [][is_some(RETRO_INSTANCE') =>
         LET after == unwrap(RETRO_INSTANCE').frame_delta IN
         IF is_none(RETRO_INSTANCE)
         THEN after = None
         ELSE LET before == unwrap(RETRO_INSTANCE).frame_delta
                  n == Len(calls')
              IN  CASE lastCall'.name = "retro_run" ->
                         /\ CountHook(calls', "on_run") = 1
                         /\ calls'[n].hook = "on_run"
                         /\ calls'[n].arg = <<before>>
                         /\ after = None
                    [] lastCall'.name = "retro_frame_time_callback_fn" ->
                         after = Some(lastCall'.arg[1])
                    [] OTHER -> after = before]_vars

\* a stored delta was delivered to on_run, and nothing is pending now
C16_Witness ==
    /\ lastCall.name = "retro_run"
    /\ is_some(RETRO_INSTANCE)
    /\ CountHook(calls, "on_run") = 1
    /\ calls[Len(calls)].hook = "on_run"
    /\ calls[Len(calls)].arg = <<Some(MaxUsec)>>
    /\ unwrap(RETRO_INSTANCE).frame_delta = None

----------------------------------------------------------------------------
(* the load hooks: on_options_changed before them, and their contexts *)

LoadHooks == {"on_load_game", "on_load_game_special"}

\* C17: every invocation of on_load_game or on_load_game_special comes right
\* after an on_options_changed of the same call, the only one of that call,
\* whether the game pointer of retro_load_game is null or not
C17_OptionsChangedBeforeLoad ==
    /\ \A i \in DOMAIN calls :
          calls[i].hook \in LoadHooks =>
              /\ i > 1
              /\ calls[i - 1].hook = "on_options_changed"
              /\ CountHook(calls, "on_options_changed") = 1
    /\ (/\ lastCall.name = "retro_load_game"
        /\ is_some(RETRO_INSTANCE)) =>
          /\ CountHook(calls, "on_load_game") = 1
          /\ calls[Len(calls)].arg = <<game_argument(lastCall.arg[1])>>

\* retro_load_game with a null game pointer: on_options_changed, then
\* on_load_game with no game
C17_Witness ==
    /\ lastCall.name = "retro_load_game"
    /\ lastCall.arg = <<NULL>>
    /\ Len(calls) = 2
    /\ calls[1].hook = "on_options_changed"
    /\ calls[2].hook = "on_load_game"
    /\ calls[2].arg = <<None>>

\* C18 as stated: the contexts of on_load_game and of on_load_game_special both
\* expose the environment callback and the service interfaces
C18_AsStated ==
    \A i \in DOMAIN calls :
        calls[i].hook \in LoadHooks =>
            /\ calls[i].ctx.environment_callback =
                   unwrap(RETRO_INSTANCE).environment_callback
            /\ calls[i].ctx.services = LoadGameServices

\* C18 amended: the context of on_load_game is built from the environment
\* callback and the wrapper's service interfaces, the context of
\* on_load_game_special from the environment callback alone
C18_LoadContexts ==
    \A i \in DOMAIN calls :
        calls[i].hook \in LoadHooks =>
            /\ calls[i].ctx.environment_callback =
                   unwrap(RETRO_INSTANCE).environment_callback
            /\ calls[i].ctx.services =
                   IF calls[i].hook = "on_load_game" THEN LoadGameServices ELSE {}

\* on_load_game_special invoked with a context that holds no service interface
C18_Witness ==
    /\ lastCall.name = "retro_load_game_special"
    /\ Len(calls) = 2
    /\ calls[2].hook = "on_load_game_special"
    /\ calls[2].ctx.services = {}
    /\ is_some(calls[2].ctx.environment_callback)

----------------------------------------------------------------------------
(* can_dupe, and the struct pointers of the two info queries *)

\* C19: retro_init on a registered slot asks the host for can_dupe through the
\* stored environment callback, then invokes on_init, and stores the answer;
\* retro_run hands on_run a context with the stored flag; no other call
\* changes the flag, so it is the one of the most recent retro_init
C19_CanDupe ==
    [][(is_some(RETRO_INSTANCE) /\ is_some(RETRO_INSTANCE')) =>
         LET before == unwrap(RETRO_INSTANCE)
             after == unwrap(RETRO_INSTANCE').can_dupe
             n == Len(calls')
         IN  CASE lastCall'.name = "retro_init" ->
                    /\ n = 2
                    /\ calls'[1].hook = "environment::can_dupe"
                    /\ calls'[1].arg = <<before.environment_callback>>
                    /\ calls'[2].hook = "on_init"
                    /\ after = unwrap(calls'[1].ret)
               [] lastCall'.name = "retro_run" ->
                    /\ calls'[n].hook = "on_run"
                    /\ calls'[n].ctx.can_dupe = before.can_dupe
                    /\ after = before.can_dupe
               [] OTHER -> after = before.can_dupe]_vars

\* a retro_run after a retro_init the host answered with true
C19_Witness ==
    /\ lastCall.name = "retro_run"
    /\ is_some(RETRO_INSTANCE)
    /\ CountHook(calls, "on_run") = 1
    /\ calls[Len(calls)].ctx.can_dupe
    /\ unwrap(RETRO_INSTANCE).can_dupe

\* C20: retro_get_system_info and retro_get_system_av_info called with a null
\* struct pointer terminate fatally without invoking anything, and leave the
\* slot and the cached system info as they were: unregistered stays unregistered
C20_NullStructFatal ==
    [][(/\ lastCall'.name \in {"retro_get_system_info", "retro_get_system_av_info"}
        /\ is_null(lastCall'.arg[1])) =>
         /\ is_some(panicked')
         /\ calls' = <<>>
         /\ RETRO_INSTANCE' = RETRO_INSTANCE
         /\ SYS_INFO' = SYS_INFO
         /\ hist' = hist]_vars

\* retro_get_system_info with a null pointer as the first call of the process
C20_Witness ==
    /\ lastCall.name = "retro_get_system_info"
    /\ is_null(lastCall.arg[1])
    /\ is_some(panicked)
    /\ is_none(RETRO_INSTANCE)
    /\ is_none(SYS_INFO)
    /\ hist.registered = 0
    /\ calls = <<>>

----------------------------------------------------------------------------
(* retro_set_environment before registration *)

\* C21: retro_set_environment called while no Core is registered returns
\* normally, invokes nothing and records nothing; the wrapper a registration
\* creates has no environment callback and its one-time setup still due, and
\* the first non-null retro_set_environment it then gets is the initial one
C21_EnvironmentBeforeRegistration ==
    [][/\ (/\ lastCall'.name = "retro_set_environment"
            /\ is_none(RETRO_INSTANCE)) =>
             /\ is_none(panicked')
             /\ calls' = <<>>
             /\ RETRO_INSTANCE' = RETRO_INSTANCE
             /\ SYS_INFO' = SYS_INFO
             /\ hist' = hist
       /\ (is_none(RETRO_INSTANCE) /\ is_some(RETRO_INSTANCE')) =>
             /\ is_none(unwrap(RETRO_INSTANCE').environment_callback)
             /\ setup_due(unwrap(RETRO_INSTANCE'))
             /\ hist'.one_time_setup = 0
       /\ (/\ lastCall'.name = "retro_set_environment"
            /\ is_some(RETRO_INSTANCE)
            /\ is_some(lastCall'.arg[1])
            /\ setup_due(unwrap(RETRO_INSTANCE))) =>
             /\ calls'[Len(calls')].hook = "on_set_environment"
             /\ calls'[Len(calls')].arg = <<TRUE>>
             /\ unwrap(RETRO_INSTANCE').environment_callback = lastCall'.arg[1]
             /\ ~setup_due(unwrap(RETRO_INSTANCE'))]_vars

\* a non-null callback handed in before any Core is registered: ignored
C21_Witness ==
    /\ lastCall.name = "retro_set_environment"
    /\ is_some(lastCall.arg[1])
    /\ is_none(RETRO_INSTANCE)
    /\ is_none(panicked)
    /\ calls = <<>>
    /\ hist.one_time_setup = 0

----------------------------------------------------------------------------
(* the null checks that come before the registration check *)

\* the pointer argument of the four entry points that test it first
NullCheckedPointer(call) ==
    CASE call.name \in {"retro_serialize", "retro_unserialize"} -> call.arg[1]
      [] call.name = "retro_cheat_set" -> call.arg[3]
      [] call.name = "retro_load_game_special" -> call.arg[2]

NullCheckedEntryPoints ==
    {"retro_serialize", "retro_unserialize", "retro_cheat_set", "retro_load_game_special"}

\* C22: retro_serialize, retro_unserialize, retro_cheat_set and
\* retro_load_game_special called with a null pointer return their default
\* (nothing for retro_cheat_set, false for the others) in every state, also
\* when no Core is registered, without terminating, invoking or changing anything
C22_NullBeforeRegistration ==
    [][(/\ lastCall'.name \in NullCheckedEntryPoints
        /\ is_null(NullCheckedPointer(lastCall'))) =>
         /\ is_none(panicked')
         /\ calls' = <<>>
         /\ lastCall'.ret =
                IF lastCall'.name = "retro_cheat_set" THEN None ELSE Some(FALSE)
         /\ RETRO_INSTANCE' = RETRO_INSTANCE
         /\ SYS_INFO' = SYS_INFO
         /\ hist' = hist]_vars

\* retro_cheat_set with a null code while no Core is registered: it returns
C22_Witness ==
    /\ lastCall.name = "retro_cheat_set"
    /\ is_null(lastCall.arg[3])
    /\ is_none(RETRO_INSTANCE)
    /\ is_none(panicked)
    /\ calls = <<>>

----------------------------------------------------------------------------
(* the side callbacks *)

\* the hook each side callback forwards to; the frame-time callback has none
SideCallbackHook(name) ==
    CASE name = "retro_keyboard_callback_fn" -> "on_keyboard_event"
      [] name = "retro_audio_callback_fn" -> "on_write_audio"
      [] name = "retro_audio_set_state_callback_fn" -> "on_audio_set_state"
      [] name = "retro_frame_time_callback_fn" -> ""

SideCallbacks ==
    {"retro_keyboard_callback_fn", "retro_audio_callback_fn",
     "retro_audio_set_state_callback_fn", "retro_frame_time_callback_fn"}

\* C23: the four side callbacks never terminate the process; with no Core
\* registered they invoke nothing and change nothing; on a registered slot the
\* frame-time callback only stores its argument as the pending delta and each
\* of the others invokes exactly its one hook
C23_SideCallbacks ==
    [][lastCall'.name \in SideCallbacks =>
         /\ is_none(panicked')
         /\ lastCall'.ret = None
         /\ SYS_INFO' = SYS_INFO
         /\ hist' = hist
         /\ IF is_none(RETRO_INSTANCE)
            THEN /\ calls' = <<>>
                 /\ RETRO_INSTANCE' = RETRO_INSTANCE
            ELSE IF lastCall'.name = "retro_frame_time_callback_fn"
            THEN /\ calls' = <<>>
                 /\ RETRO_INSTANCE' =
                      Some([unwrap(RETRO_INSTANCE) EXCEPT
                               !.frame_delta = Some(lastCall'.arg[1])])
            ELSE /\ Len(calls') = 1
                 /\ calls'[1].hook = SideCallbackHook(lastCall'.name)]_vars

\* the audio state callback fired while no Core is registered: nothing happens
C23_Witness ==
    /\ lastCall.name = "retro_audio_set_state_callback_fn"
    /\ is_none(RETRO_INSTANCE)
    /\ is_none(panicked)
    /\ calls = <<>>

----------------------------------------------------------------------------
(* frame conditions on the slot *)

\* the fields of the wrapper the bridge keeps for itself
SlotFields(wrapper) ==
    [environment_callback |-> wrapper.environment_callback,
     environment_set |-> wrapper.environment_set,
     can_dupe |-> wrapper.can_dupe,
     frame_delta |-> wrapper.frame_delta,
     audio_sample_callback |-> wrapper.audio_sample_callback,
     audio_sample_batch_callback |-> wrapper.audio_sample_batch_callback,
     input_poll_callback |-> wrapper.input_poll_callback,
     input_state_callback |-> wrapper.input_state_callback,
     video_refresh_callback |-> wrapper.video_refresh_callback]

\* the entry points that only hand the call on to the Core
HandingOnEntryPoints ==
    {"retro_cheat_reset", "retro_deinit", "retro_get_region", "retro_reset",
     "retro_serialize_size", "retro_unload_game",
     "retro_serialize", "retro_unserialize", "retro_cheat_set",
     "retro_get_memory_data", "retro_get_memory_size",
     "retro_load_game", "retro_load_game_special", "retro_get_system_av_info"}

\* C24: on a registered slot the environment callback and the one-time-setup
\* flag change only in retro_set_environment, can_dupe only in retro_init, the
\* pending delta only in retro_frame_time_callback_fn (set) and retro_run
\* (cleared); the forwarders, (un)serialize, cheat set, the memory queries, the
\* loads and get-AV-info leave all of these and the I/O callbacks as they were
C24_SlotFrame ==
    [][(is_some(RETRO_INSTANCE) /\ is_some(RETRO_INSTANCE')) =>
         LET before == unwrap(RETRO_INSTANCE)
             after == unwrap(RETRO_INSTANCE')
             name == lastCall'.name
         IN  /\ name # "retro_set_environment" =>
                   /\ after.environment_callback = before.environment_callback
                   /\ after.environment_set = before.environment_set
             /\ name # "retro_init" => after.can_dupe = before.can_dupe
             /\ name \notin {"retro_frame_time_callback_fn", "retro_run"} =>
                   after.frame_delta = before.frame_delta
             /\ name = "retro_frame_time_callback_fn" => is_some(after.frame_delta)
             /\ name = "retro_run" => is_none(after.frame_delta)
             /\ name \in HandingOnEntryPoints =>
                   SlotFields(after) = SlotFields(before)]_vars

\* retro_deinit on a slot whose fields have all been set: they are still set
C24_Witness ==
    /\ lastCall.name = "retro_deinit"
    /\ is_some(RETRO_INSTANCE)
    /\ CountHook(calls, "on_deinit") = 1
    /\ is_some(unwrap(RETRO_INSTANCE).environment_callback)
    /\ unwrap(RETRO_INSTANCE).environment_set
    /\ unwrap(RETRO_INSTANCE).can_dupe
    /\ is_some(unwrap(RETRO_INSTANCE).frame_delta)
    /\ is_some(unwrap(RETRO_INSTANCE).input_poll_callback)

====
